---- MODULE Spec2Model ----
(***************************************************************************)
(* Model of src/swarm_framework.py: the Swarm agent registry, the shared   *)
(* conversation history and context variables, single-agent invocation,    *)
(* handoff, the sequential multi-agent run and the save/load cycle.        *)
(*                                                                         *)
(* Python values are modelled as follows.                                  *)
(*   None / Optional[x]  : <<>> is None, <<x>> is a present x              *)
(*   str                 : a TLA+ string (f-strings are \o concatenations) *)
(*   list                : a sequence                                      *)
(*   dict (registry)     : a sequence of [key, value] entries with unique  *)
(*                         keys, in insertion order                        *)
(*   dict (context)      : a function from its keys to its values          *)
(*   arbitrary values    : tagged tuples <<"str", s>>, <<"int", n>>,       *)
(*                         <<"none">>, <<"list", seq>>, <<"function", f>>  *)
(*   float temperature   : tenths (0.7 is 7)                               *)
(*   datetime.now()      : the value of the variable clock                 *)
(*   object identity     : a dict handed out in a result is either the     *)
(*                         object bound to self.context_variables or an    *)
(*                         object of its own (see copy and Pairs)          *)
(***************************************************************************)
EXTENDS Integers, Sequences, FiniteSets, TLC

VARIABLES agents, conversation_history, context_variables, clock, file, last,
          add_log, held

vars == <<agents, conversation_history, context_variables, clock, file, last,
          add_log, held>>

(***************************************************************************)
(* Bounds of the model.                                                    *)
(***************************************************************************)
MaxHist == 3
MaxHistWindow == 3
MaxHistMulti == 4
MaxHistPersist == 2
MaxHistSnapshot == 1
MaxTime == 1
MaxTurnsArg == 2
MaxSeq == 2
MaxAdds == 3

(***************************************************************************)
(* Defaults of the dataclasses and of run.                                 *)
(***************************************************************************)
DefaultModel == "gpt-4"
DefaultTemperature == 7
DefaultMaxTokens == 1000
DefaultMaxTurns == 10

None == <<>>
Some(x) == <<x>>

(***************************************************************************)
(* Python dict operations on the insertion-ordered registry.               *)
(***************************************************************************)
DictKeys(d) == [i \in 1..Len(d) |-> d[i].key]
DictHas(d, k) == \E i \in 1..Len(d) : d[i].key = k
DictIndex(d, k) == CHOOSE i \in 1..Len(d) : d[i].key = k
DictGet(d, k) == d[DictIndex(d, k)].value
DictSet(d, k, v) ==
    IF DictHas(d, k)
    THEN [d EXCEPT ![DictIndex(d, k)] = [key |-> k, value |-> v]]
    ELSE Append(d, [key |-> k, value |-> v])
DictDel(d, k) ==
    LET i == DictIndex(d, k)
    IN  SubSeq(d, 1, i - 1) \o SubSeq(d, i + 1, Len(d))

(***************************************************************************)
(* Python dict operations on the context mapping.                          *)
(***************************************************************************)
EmptyDict == [k \in {} |-> <<"none">>]
DictUpdate(d, e) ==
    [k \in DOMAIN d \cup DOMAIN e |-> IF k \in DOMAIN e THEN e[k] ELSE d[k]]
Truthy(optDict) == optDict # None /\ DOMAIN optDict[1] # {}

(***************************************************************************)
(* seq[start:] for any integer start.                                      *)
(***************************************************************************)
SliceFrom(seq, start) ==
    LET n == Len(seq)
        lo == IF start < 0
              THEN (IF n + start < 0 THEN 0 ELSE n + start)
              ELSE (IF start > n THEN n ELSE start)
    IN  SubSeq(seq, lo + 1, n)

(***************************************************************************)
(* The dataclasses.                                                        *)
(***************************************************************************)
Agent(name, instructions, functions, model, temperature, max_tokens) ==
    [name |-> name, instructions |-> instructions,
     functions |-> IF functions = None THEN <<>> ELSE functions[1],
     model |-> model, temperature |-> temperature, max_tokens |-> max_tokens]

Message(role, content, name, function_call, timestamp, now) ==
    [role |-> role, content |-> content, name |-> name,
     function_call |-> function_call,
     timestamp |-> IF timestamp = None THEN now ELSE timestamp[1]]

SwarmResult(messages, agent, ctx) ==
    [messages |-> messages, agent |-> agent, context_variables |-> ctx]

(***************************************************************************)
(* dict.copy(): a new dict object holding the key/value pairs of d.  A     *)
(* dict that a result holds is modelled with its identity: is_store tells  *)
(* whether it is the very object bound to self.context_variables, whose    *)
(* pairs every in-place update of the store changes; pairs are the pairs   *)
(* of an object of its own.  Pairs reads such a dict while the Swarm's     *)
(* store holds the pairs store.                                            *)
(***************************************************************************)
copy_returns_self(d) == [is_store |-> TRUE, pairs |-> d]

copy(d) == [is_store |-> FALSE, pairs |-> d]

Pairs(dict, store) == IF dict.is_store THEN store ELSE dict.pairs

(***************************************************************************)
(* The state of one Swarm object and the outcome of one method call:       *)
(* raised names the exception that left the method ("" when it returned),  *)
(* s is the object's state afterwards, ret the returned value, calls the   *)
(* requests sent to client.chat.completions.create and runs the arguments  *)
(* of the invocations of run, both in order.                               *)
(***************************************************************************)
Swarm(ag, hist, ctx) ==
    [agents |-> ag, conversation_history |-> hist, context_variables |-> ctx]

Outcome(raised, s, ret, calls, runs) ==
    [raised |-> raised, s |-> s, ret |-> ret, calls |-> calls, runs |-> runs]

Ok(text) == [ok |-> TRUE, text |-> text]
Fail(description) == [ok |-> FALSE, text |-> description]

(***************************************************************************)
(* Registry, context and history methods.                                  *)
(***************************************************************************)
add_agent_appends(s, agent) ==
    Outcome("", [s EXCEPT !.agents =
                     Append(@, [key |-> agent.name, value |-> agent])],
            None, <<>>, <<>>)

add_agent(s, agent) ==
    Outcome("", [s EXCEPT !.agents = DictSet(@, agent.name, agent)],
            None, <<>>, <<>>)

remove_agent(s, agent_name) ==
    IF DictHas(s.agents, agent_name)
    THEN Outcome("", [s EXCEPT !.agents = DictDel(@, agent_name)],
                 TRUE, <<>>, <<>>)
    ELSE Outcome("", s, FALSE, <<>>, <<>>)

get_agent(s, agent_name) ==
    IF DictHas(s.agents, agent_name)
    THEN Some(DictGet(s.agents, agent_name))
    ELSE None

list_agents(s) == DictKeys(s.agents)

set_context(s, key, value) ==
    Outcome("", [s EXCEPT !.context_variables =
                     DictUpdate(@, [k \in {key} |-> value])],
            None, <<>>, <<>>)

get_context(s, key, default) ==
    IF key \in DOMAIN s.context_variables
    THEN s.context_variables[key]
    ELSE default

clear_history(s) ==
    Outcome("", [s EXCEPT !.conversation_history = <<>>], None, <<>>, <<>>)

add_message_prepends(s, message) ==
    Outcome("", [s EXCEPT !.conversation_history = <<message>> \o @],
            None, <<>>, <<>>)

add_message(s, message) ==
    Outcome("", [s EXCEPT !.conversation_history = Append(@, message)],
            None, <<>>, <<>>)

(***************************************************************************)
(* Swarm.run.  remote is the outcome of the completion call: Ok(text) or   *)
(* Fail(description), the latter standing for any exception raised inside  *)
(* the try block.                                                          *)
(***************************************************************************)
ApiTurn(msg) == [role |-> msg.role, content |-> msg.content]

ApiMessages(agent, history, max_turns) ==
    <<[role |-> "system", content |-> agent.instructions]>>
    \o [i \in 1..Len(SliceFrom(history, 0 - max_turns)) |->
            ApiTurn(SliceFrom(history, 0 - max_turns)[i])]

Request(agent, api_messages) ==
    [model |-> agent.model, messages |-> api_messages,
     temperature |-> agent.temperature, max_tokens |-> agent.max_tokens]

RunArgs(agent_name, messages) ==
    [agent_name |-> agent_name, messages |-> messages]

run_merges_before_lookup(s, agent_name, messages, ctx_arg, max_turns, remote, now) ==
    LET ctx == IF Truthy(ctx_arg)
               THEN DictUpdate(s.context_variables, ctx_arg[1])
               ELSE s.context_variables
    IN  IF ~DictHas(s.agents, agent_name)
        THEN Outcome("ValueError", [s EXCEPT !.context_variables = ctx], None,
                     <<>>, <<RunArgs(agent_name, messages)>>)
        ELSE
          LET agent == DictGet(s.agents, agent_name)
              hist == s.conversation_history \o messages
              request == Request(agent, ApiMessages(agent, hist, max_turns))
              response_msg == Message("assistant", remote.text,
                                      Some(agent.name), None, None, now)
              error_msg == Message("assistant", "Error: " \o remote.text,
                                   Some(agent.name), None, None, now)
          IN  IF remote.ok
              THEN Outcome("", Swarm(s.agents, Append(hist, response_msg), ctx),
                           SwarmResult(<<response_msg>>, agent, copy(ctx)),
                           <<request>>, <<RunArgs(agent_name, messages)>>)
              ELSE Outcome("", Swarm(s.agents, hist, ctx),
                           SwarmResult(<<error_msg>>, agent, copy(ctx)),
                           <<request>>, <<RunArgs(agent_name, messages)>>)

run_appends_reply_first(s, agent_name, messages, ctx_arg, max_turns, remote, now) ==
    IF ~DictHas(s.agents, agent_name)
    THEN Outcome("ValueError", s, None, <<>>,
                 <<RunArgs(agent_name, messages)>>)
    ELSE
      LET agent == DictGet(s.agents, agent_name)
          ctx == IF Truthy(ctx_arg)
                 THEN DictUpdate(s.context_variables, ctx_arg[1])
                 ELSE s.context_variables
          hist == s.conversation_history \o messages
          request == Request(agent, ApiMessages(agent, hist, max_turns))
          response_msg == Message("assistant", remote.text,
                                  Some(agent.name), None, None, now)
          error_msg == Message("assistant", "Error: " \o remote.text,
                               Some(agent.name), None, None, now)
      IN  IF remote.ok
          THEN Outcome("", Swarm(s.agents,
                                 s.conversation_history \o <<response_msg>>
                                 \o messages, ctx),
                       SwarmResult(<<response_msg>>, agent, copy(ctx)),
                       <<request>>, <<RunArgs(agent_name, messages)>>)
          ELSE Outcome("", Swarm(s.agents, hist, ctx),
                       SwarmResult(<<error_msg>>, agent, copy(ctx)),
                       <<request>>, <<RunArgs(agent_name, messages)>>)

run(s, agent_name, messages, ctx_arg, max_turns, remote, now) ==
    IF ~DictHas(s.agents, agent_name)
    THEN Outcome("ValueError", s, None, <<>>,
                 <<RunArgs(agent_name, messages)>>)
    ELSE
      LET agent == DictGet(s.agents, agent_name)
          ctx == IF Truthy(ctx_arg)
                 THEN DictUpdate(s.context_variables, ctx_arg[1])
                 ELSE s.context_variables
          hist == s.conversation_history \o messages
          request == Request(agent, ApiMessages(agent, hist, max_turns))
          response_msg == Message("assistant", remote.text,
                                  Some(agent.name), None, None, now)
          error_msg == Message("assistant", "Error: " \o remote.text,
                               Some(agent.name), None, None, now)
      IN  IF remote.ok
          THEN Outcome("", Swarm(s.agents, Append(hist, response_msg), ctx),
                       SwarmResult(<<response_msg>>, agent, copy(ctx)),
                       <<request>>, <<RunArgs(agent_name, messages)>>)
          ELSE Outcome("", Swarm(s.agents, hist, ctx),
                       SwarmResult(<<error_msg>>, agent, copy(ctx)),
                       <<request>>, <<RunArgs(agent_name, messages)>>)

(***************************************************************************)
(* Swarm.handoff.                                                          *)
(***************************************************************************)
handoff_replies_as_source(s, from_agent, to_agent, message, context, remote, now) ==
    IF ~DictHas(s.agents, from_agent)
    THEN Outcome("ValueError", s, None, <<>>, <<>>)
    ELSE IF ~DictHas(s.agents, to_agent)
    THEN Outcome("ValueError", s, None, <<>>, <<>>)
    ELSE
      LET handoff_msg ==
              Message("user", "[Handoff from " \o from_agent \o "]: " \o message,
                      None, None, None, now)
      IN  run(s, from_agent, <<handoff_msg>>, context, DefaultMaxTurns,
              remote, now)

handoff(s, from_agent, to_agent, message, context, remote, now) ==
    IF ~DictHas(s.agents, from_agent)
    THEN Outcome("ValueError", s, None, <<>>, <<>>)
    ELSE IF ~DictHas(s.agents, to_agent)
    THEN Outcome("ValueError", s, None, <<>>, <<>>)
    ELSE
      LET handoff_msg ==
              Message("user", "[Handoff from " \o from_agent \o "]: " \o message,
                      None, None, None, now)
      IN  run(s, to_agent, <<handoff_msg>>, context, DefaultMaxTurns,
              remote, now)

(***************************************************************************)
(* Swarm.multi_agent_run.  remotes[i] is the outcome of the completion     *)
(* call of the i-th invocation.  MultiLoop is the for loop from its i-th   *)
(* iteration on, acc the outcome accumulated so far (acc.ret is results).  *)
(***************************************************************************)
NextMessage_keeps_input(result, current_message) == current_message

NextMessage(result, current_message) ==
    IF result.messages # <<>>
    THEN result.messages[Len(result.messages)].content
    ELSE current_message

RECURSIVE MultiLoop(_, _, _, _, _, _)
MultiLoop(acc, agent_sequence, i, current_message, remotes, now) ==
    IF i > Len(agent_sequence)
    THEN acc
    ELSE
      LET msg == Message("user", current_message, None, None, None, now)
          r == run(acc.s, agent_sequence[i], <<msg>>, None, DefaultMaxTurns,
                   remotes[i], now)
      IN  IF r.raised # ""
          THEN Outcome(r.raised, r.s, None, acc.calls \o r.calls,
                       acc.runs \o r.runs)
          ELSE MultiLoop(
                 Outcome("", r.s, Append(acc.ret, r.ret), acc.calls \o r.calls,
                         acc.runs \o r.runs),
                 agent_sequence, i + 1, NextMessage(r.ret, current_message),
                 remotes, now)

multi_agent_run(s, agent_sequence, initial_message, ctx_arg, remotes, now) ==
    LET ctx == IF Truthy(ctx_arg)
               THEN DictUpdate(s.context_variables, ctx_arg[1])
               ELSE s.context_variables
    IN  MultiLoop(Outcome("", [s EXCEPT !.context_variables = ctx], <<>>,
                          <<>>, <<>>),
                  agent_sequence, 1, initial_message, remotes, now)

(***************************************************************************)
(* json.dump and json.load.  A Python value is a tagged tuple                *)
(* (<<"none">>, <<"num", n>>, <<"str", s>>, <<"list", seq>>,                 *)
(* <<"dict", f>>, <<"function", id>>), a JSON value likewise (<<"null">>,    *)
(* <<"number", n>>, <<"string", s>>, <<"array", seq>>, <<"object", f>>).     *)
(* A callable has no JSON encoding: json.dump raises TypeError on it.        *)
(***************************************************************************)
RECURSIVE json_serializable(_)
json_serializable(v) ==
    CASE v[1] \in {"none", "num", "str"} -> TRUE
      [] v[1] = "list" -> \A i \in 1..Len(v[2]) : json_serializable(v[2][i])
      [] v[1] = "dict" -> \A k \in DOMAIN v[2] : json_serializable(v[2][k])
      [] OTHER -> FALSE

RECURSIVE json_encode(_)
json_encode(v) ==
    CASE v[1] = "none" -> <<"null">>
      [] v[1] = "num" -> <<"number", v[2]>>
      [] v[1] = "str" -> <<"string", v[2]>>
      [] v[1] = "list" ->
            <<"array", [i \in 1..Len(v[2]) |-> json_encode(v[2][i])]>>
      [] v[1] = "dict" ->
            <<"object", [k \in DOMAIN v[2] |-> json_encode(v[2][k])]>>

RECURSIVE json_decode(_)
json_decode(j) ==
    CASE j[1] = "null" -> <<"none">>
      [] j[1] = "number" -> <<"num", j[2]>>
      [] j[1] = "string" -> <<"str", j[2]>>
      [] j[1] = "array" ->
            <<"list", [i \in 1..Len(j[2]) |-> json_decode(j[2][i])]>>
      [] j[1] = "object" ->
            <<"dict", [k \in DOMAIN j[2] |-> json_decode(j[2][k])]>>

(***************************************************************************)
(* dataclasses.asdict: the fields as Python values.  A timestamp string is *)
(* represented by the clock reading it prints.                             *)
(***************************************************************************)
OptStr(o) == IF o = None THEN <<"none">> ELSE <<"str", o[1]>>
OptDict(o) == IF o = None THEN <<"none">> ELSE <<"dict", o[1]>>

asdict_agent(agent) ==
    [name |-> <<"str", agent.name>>,
     instructions |-> <<"str", agent.instructions>>,
     functions |-> <<"list", agent.functions>>,
     model |-> <<"str", agent.model>>,
     temperature |-> <<"num", agent.temperature>>,
     max_tokens |-> <<"num", agent.max_tokens>>]

asdict_message_drops_timestamp(msg) ==
    [role |-> <<"str", msg.role>>,
     content |-> <<"str", msg.content>>,
     name |-> OptStr(msg.name),
     function_call |-> OptDict(msg.function_call)]

asdict_message(msg) ==
    [role |-> <<"str", msg.role>>,
     content |-> <<"str", msg.content>>,
     name |-> OptStr(msg.name),
     function_call |-> OptDict(msg.function_call),
     timestamp |-> <<"str", msg.timestamp>>]

(***************************************************************************)
(* The file is None (absent), <<"invalid">> (text that is not JSON) or     *)
(* <<"json", doc>>, doc a function from the top-level keys of the document *)
(* to its sections: agents an insertion-ordered sequence of [key, value]   *)
(* members, conversation_history a sequence, both of functions from field  *)
(* names to JSON values, context_variables a JSON object.                  *)
(***************************************************************************)
EncodeFields(d) == [f \in DOMAIN d |-> json_encode(d[f])]
FieldsSerializable(d) == \A f \in DOMAIN d : json_serializable(d[f])

(***************************************************************************)
(* Swarm.save_state: [raised, file].  open(filename, 'w') truncates the    *)
(* file before json.dump runs, so a TypeError leaves text that is not a    *)
(* JSON document.                                                          *)
(***************************************************************************)
save_state(s, now) ==
    LET agent_dicts == [i \in 1..Len(s.agents) |->
                           [key |-> s.agents[i].key,
                            value |-> asdict_agent(s.agents[i].value)]]
        message_dicts == [i \in 1..Len(s.conversation_history) |->
                             asdict_message(s.conversation_history[i])]
    IN  IF /\ \A i \in 1..Len(agent_dicts) :
                  FieldsSerializable(agent_dicts[i].value)
           /\ \A i \in 1..Len(message_dicts) :
                  FieldsSerializable(message_dicts[i])
           /\ json_serializable(<<"dict", s.context_variables>>)
        THEN [raised |-> "",
              file |-> <<"json",
                  [agents |-> [i \in 1..Len(agent_dicts) |->
                                  [key |-> agent_dicts[i].key,
                                   value |-> EncodeFields(agent_dicts[i].value)]],
                   conversation_history |->
                       [i \in 1..Len(message_dicts) |->
                           EncodeFields(message_dicts[i])],
                   context_variables |->
                       json_encode(<<"dict", s.context_variables>>),
                   timestamp |-> <<"string", now>>]>>]
        ELSE [raised |-> "TypeError", file |-> <<"invalid">>]

(***************************************************************************)
(* The Agent and Message constructors called with a document entry as     *)
(* keyword arguments: [raised, value].  An unknown keyword or a missing    *)
(* required one is a TypeError.                                            *)
(***************************************************************************)
AgentFields ==
    {"name", "instructions", "functions", "model", "temperature",
     "max_tokens"}
MessageFields == {"role", "content", "name", "function_call", "timestamp"}

Field(data, f, default) == IF f \in DOMAIN data THEN data[f][2] ELSE default
Present(data, f) == f \in DOMAIN data /\ data[f] # <<"null">>

AgentFromData(data) ==
    IF {"name", "instructions"} \subseteq DOMAIN data
       /\ DOMAIN data \subseteq AgentFields
    THEN [raised |-> "",
          value |-> Agent(data.name[2], data.instructions[2],
                          IF Present(data, "functions")
                          THEN Some(json_decode(data.functions)[2])
                          ELSE None,
                          Field(data, "model", DefaultModel),
                          Field(data, "temperature", DefaultTemperature),
                          Field(data, "max_tokens", DefaultMaxTokens))]
    ELSE [raised |-> "TypeError", value |-> None]

MessageFromData(data, now) ==
    IF {"role", "content"} \subseteq DOMAIN data
       /\ DOMAIN data \subseteq MessageFields
    THEN [raised |-> "",
          value |-> Message(data.role[2], data.content[2],
                            IF Present(data, "name")
                            THEN Some(data.name[2]) ELSE None,
                            IF Present(data, "function_call")
                            THEN Some(json_decode(data.function_call)[2])
                            ELSE None,
                            IF Present(data, "timestamp")
                            THEN Some(data.timestamp[2]) ELSE None,
                            now)]
    ELSE [raised |-> "TypeError", value |-> None]

(***************************************************************************)
(* Swarm.load_state.  LoadAgents and LoadMessages are the two for loops    *)
(* from their i-th iteration on; each assigns into the object as it goes.  *)
(***************************************************************************)
RECURSIVE LoadAgents(_, _, _)
LoadAgents(s, members, i) ==
    IF i > Len(members)
    THEN Outcome("", s, None, <<>>, <<>>)
    ELSE LET made == AgentFromData(members[i].value)
         IN  IF made.raised # ""
             THEN Outcome(made.raised, s, None, <<>>, <<>>)
             ELSE LoadAgents(
                    [s EXCEPT !.agents = DictSet(@, members[i].key, made.value)],
                    members, i + 1)

RECURSIVE LoadMessages(_, _, _, _)
LoadMessages(s, entries, i, now) ==
    IF i > Len(entries)
    THEN Outcome("", s, None, <<>>, <<>>)
    ELSE LET made == MessageFromData(entries[i], now)
         IN  IF made.raised # ""
             THEN Outcome(made.raised, s, None, <<>>, <<>>)
             ELSE LoadMessages(
                    [s EXCEPT !.conversation_history = Append(@, made.value)],
                    entries, i + 1, now)

load_state_merges(s, f, now) ==
    IF f = None
    THEN Outcome("FileNotFoundError", s, None, <<>>, <<>>)
    ELSE IF f[1] # "json"
    THEN Outcome("JSONDecodeError", s, None, <<>>, <<>>)
    ELSE
      LET state == f[2]
      IN  IF "agents" \notin DOMAIN state
          THEN Outcome("KeyError", s, None, <<>>, <<>>)
          ELSE
            LET a == LoadAgents(s, state.agents, 1)
            IN  IF a.raised # ""
                THEN a
                ELSE IF "conversation_history" \notin DOMAIN state
                THEN Outcome("KeyError", a.s, None, <<>>, <<>>)
                ELSE
                  LET m == LoadMessages(a.s, state.conversation_history, 1,
                                        now)
                  IN  IF m.raised # ""
                      THEN m
                      ELSE IF "context_variables" \notin DOMAIN state
                      THEN Outcome("KeyError", m.s, None, <<>>, <<>>)
                      ELSE Outcome("",
                             [m.s EXCEPT !.context_variables =
                                 DictUpdate(@,
                                     json_decode(state.context_variables)[2])],
                             None, <<>>, <<>>)

load_state(s, f, now) ==
    IF f = None
    THEN Outcome("FileNotFoundError", s, None, <<>>, <<>>)
    ELSE IF f[1] # "json"
    THEN Outcome("JSONDecodeError", s, None, <<>>, <<>>)
    ELSE
      LET state == f[2]
          s1 == [s EXCEPT !.agents = <<>>]
      IN  IF "agents" \notin DOMAIN state
          THEN Outcome("KeyError", s1, None, <<>>, <<>>)
          ELSE
            LET a == LoadAgents(s1, state.agents, 1)
                s2 == [a.s EXCEPT !.conversation_history = <<>>]
            IN  IF a.raised # ""
                THEN a
                ELSE IF "conversation_history" \notin DOMAIN state
                THEN Outcome("KeyError", s2, None, <<>>, <<>>)
                ELSE
                  LET m == LoadMessages(s2, state.conversation_history, 1, now)
                  IN  IF m.raised # ""
                      THEN m
                      ELSE IF "context_variables" \notin DOMAIN state
                      THEN Outcome("KeyError", m.s, None, <<>>, <<>>)
                      ELSE Outcome("",
                             [m.s EXCEPT !.context_variables =
                                 json_decode(state.context_variables)[2]],
                             None, <<>>, <<>>)

(***************************************************************************)
(* The callers' inputs.                                                    *)
(***************************************************************************)
Names == {"A", "B"}

AgentA == Agent("A", "be A", None, DefaultModel, DefaultTemperature,
                DefaultMaxTokens)
AgentB == Agent("B", "be B", Some(<<>>), "gpt-3.5", 2, 50)

Keys == {"k"}
Values == {<<"str", "v1">>}
CtxArgs == {None, Some([k \in {"k"} |-> <<"str", "v2">>])}

Texts == {"hi"}
Failures == {"boom"}
RemoteOutcomes == {Ok("ok")} \cup {Fail(d) : d \in Failures}

UserMessage(now) == Message("user", "hi", None, None, None, now)
ToolMessage(now) == Message("function", "res", Some("f"), None, Some(5), now)
InputMessages(now) ==
    {<<UserMessage(now)>>, <<ToolMessage(now), UserMessage(now)>>}

SeqsOver(S, n) == UNION {[1..k -> S] : k \in 0..n}

(***************************************************************************)
(* One step of the program: a method call on the Swarm object.  last keeps *)
(* the call, its arguments and what it returned or raised.                 *)
(***************************************************************************)
Self == Swarm(agents, conversation_history, context_variables)

Last(op, args, out, before) ==
    [op |-> op, args |-> args, raised |-> out.raised, ret |-> out.ret,
     calls |-> out.calls, runs |-> out.runs, before |-> before]

Call(op, args, out) ==
    /\ agents' = out.s.agents
    /\ conversation_history' = out.s.conversation_history
    /\ context_variables' = out.s.context_variables
    /\ last' = Last(op, args, out, None)

Grow(op, args, out, cap) ==
    /\ Len(out.s.conversation_history) <= cap
    /\ Call(op, args, out)

Init ==
    /\ agents = <<>>
    /\ conversation_history = <<>>
    /\ context_variables = EmptyDict
    /\ clock = 0
    /\ file = None
    /\ add_log = <<>>
    /\ held = None
    /\ last = Last("__init__", <<>>, Outcome("", <<>>, None, <<>>, <<>>),
                   None)

(***************************************************************************)
(* add_log is a history variable: the agents passed to add_agent since     *)
(* construction, in call order.  It is kept when log_cap > 0 (at most      *)
(* log_cap calls are then made) and left empty otherwise.                  *)
(***************************************************************************)
AddAgent(defs, log_cap) ==
    \E a \in defs :
        /\ log_cap > 0 => Len(add_log) < log_cap
        /\ Call("add_agent", [agent |-> a], add_agent(Self, a))
        /\ add_log' = IF log_cap > 0 THEN Append(add_log, a) ELSE add_log
        /\ UNCHANGED <<clock, file, held>>

GetAgent(names) ==
    \E n \in names :
        /\ last' = Last("get_agent", [agent_name |-> n],
                        Outcome("", Self, get_agent(Self, n), <<>>, <<>>),
                        None)
        /\ UNCHANGED <<agents, conversation_history, context_variables,
                       clock, file, add_log, held>>

ListAgents ==
    /\ last' = Last("list_agents", <<>>,
                    Outcome("", Self, list_agents(Self), <<>>, <<>>), None)
    /\ UNCHANGED <<agents, conversation_history, context_variables, clock,
                   file, add_log, held>>

RemoveAgent ==
    \E n \in Names :
        /\ Call("remove_agent", [agent_name |-> n], remove_agent(Self, n))
        /\ UNCHANGED <<clock, file, add_log, held>>

SetContext(values) ==
    \E k \in Keys, v \in values :
        /\ Call("set_context", [key |-> k, value |-> v],
                set_context(Self, k, v))
        /\ UNCHANGED <<clock, file, add_log, held>>

ClearHistory ==
    /\ Call("clear_history", <<>>, clear_history(Self))
    /\ UNCHANGED <<clock, file, add_log, held>>

AddMessage(messages, cap) ==
    \E m \in messages :
        /\ Grow("add_message", [message |-> m], add_message(Self, m), cap)
        /\ UNCHANGED <<clock, file, add_log, held>>

Run(names, inputs, ctx_args, max_turns_args, cap) ==
    \E n \in names, msgs \in inputs, c \in ctx_args, mt \in max_turns_args,
       remote \in RemoteOutcomes :
        /\ Grow("run",
                [agent_name |-> n, messages |-> msgs, context_variables |-> c,
                 max_turns |-> mt, remote |-> remote],
                run(Self, n, msgs, c, mt, remote, clock), cap)
        /\ UNCHANGED <<clock, file, add_log, held>>

Handoff(cap) ==
    \E from \in Names, to \in Names, text \in Texts, c \in CtxArgs,
       remote \in RemoteOutcomes :
        /\ Grow("handoff",
                [from_agent |-> from, to_agent |-> to, message |-> text,
                 context |-> c, remote |-> remote],
                handoff(Self, from, to, text, c, remote, clock), cap)
        /\ UNCHANGED <<clock, file, add_log, held>>

MultiAgentRun(ctx_args, cap) ==
    \E sq \in SeqsOver(Names, MaxSeq), text \in Texts, c \in ctx_args :
        \E remotes \in [1..Len(sq) -> RemoteOutcomes] :
            /\ Grow("multi_agent_run",
                    [agent_sequence |-> sq, initial_message |-> text,
                     context_variables |-> c, remotes |-> remotes],
                    multi_agent_run(Self, sq, text, c, remotes, clock), cap)
            /\ UNCHANGED <<clock, file, add_log, held>>

(***************************************************************************)
(* Spec: registry, context, history, run and handoff calls in any order.   *)
(***************************************************************************)
Next ==
    \/ AddAgent({AgentA, AgentB}, 0)
    \/ RemoveAgent
    \/ SetContext(Values)
    \/ ClearHistory
    \/ AddMessage({UserMessage(clock)}, MaxHist)
    \/ Run(Names, InputMessages(clock), CtxArgs, {DefaultMaxTurns}, MaxHist)
    \/ Handoff(MaxHist)

Spec == Init /\ [][Next]_vars

(***************************************************************************)
(* C1: when run is called on a registered agent and the completion call    *)
(* fails, the history afterwards is the prior history, then the supplied   *)
(* messages, then the one degraded message that the result holds.          *)
(***************************************************************************)
C1_DegradedAppended ==
    [][(/\ last'.op = "run"
        /\ DictHas(agents, last'.args.agent_name)
        /\ ~last'.args.remote.ok)
       => /\ last'.raised = ""
          /\ Len(last'.ret.messages) = 1
          /\ last'.ret.messages[1].content
                 = "Error: " \o last'.args.remote.text
          /\ last'.ret.messages[1].name = Some(last'.args.agent_name)
          /\ conversation_history'
                 = conversation_history \o last'.args.messages
                   \o last'.ret.messages]_vars

(***************************************************************************)
(* C2: the result of run carries an error indicator beside the content:    *)
(* from the same state, with the same agent, messages and context, the     *)
(* result of a failed completion call with description d and the result of *)
(* a successful one that generated "Error: d" differ in a field other than *)
(* the timestamp.                                                          *)
(***************************************************************************)
WithoutTimestamp(result) ==
    [result EXCEPT !.messages =
        [i \in 1..Len(result.messages) |->
            [result.messages[i] EXCEPT !.timestamp = 0]]]

C2_ErrorIndicator ==
    \A n \in Names, msgs \in InputMessages(clock), c \in CtxArgs,
       d \in Failures :
        DictHas(agents, n) =>
            WithoutTimestamp(
                run(Self, n, msgs, c, DefaultMaxTurns, Fail(d), clock).ret)
            # WithoutTimestamp(
                run(Self, n, msgs, c, DefaultMaxTurns, Ok("Error: " \o d),
                    clock).ret)

(***************************************************************************)
(* C3: run with an unregistered agent name, and handoff with an            *)
(* unregistered source or target, raise the not-found error, send no       *)
(* request and leave the history and the context variables as they were.   *)
(***************************************************************************)
C3_NotFoundNoEffect ==
    [][(\/ /\ last'.op = "run"
           /\ ~DictHas(agents, last'.args.agent_name)
        \/ /\ last'.op = "handoff"
           /\ \/ ~DictHas(agents, last'.args.from_agent)
              \/ ~DictHas(agents, last'.args.to_agent))
       => /\ last'.raised = "ValueError"
          /\ last'.calls = <<>>
          /\ UNCHANGED <<conversation_history, context_variables>>]_vars

C3_Witness ==
    /\ last.op = "handoff"
    /\ last.raised = "ValueError"
    /\ DictHas(agents, last.args.from_agent)
    /\ ~DictHas(agents, last.args.to_agent)
    /\ last.args.context # None
    /\ conversation_history # <<>>
    /\ DOMAIN context_variables # {}

(***************************************************************************)
(* SpecWindow: run with every window bound, on histories of every length.  *)
(***************************************************************************)
MaxTurnsArgs == (0..MaxTurnsArg) \cup {DefaultMaxTurns}

NextWindow ==
    \/ AddAgent({AgentA, AgentB}, 0)
    \/ AddMessage({UserMessage(clock), ToolMessage(clock)}, MaxHistWindow)
    \/ Run(Names, {<<>>, <<UserMessage(clock)>>}, {None}, MaxTurnsArgs,
           MaxHistWindow)

SpecWindow == Init /\ [][NextWindow]_vars

(***************************************************************************)
(* C7: for a history of n messages (the supplied messages included) and a  *)
(* window bound max_turns >= 0, the request built by run is one system     *)
(* turn holding the agent's instructions followed by the last              *)
(* min(max_turns, n) stored messages in order, and the stored history is   *)
(* kept as it was.                                                         *)
(***************************************************************************)
Min(a, b) == IF a < b THEN a ELSE b

C7_RequestWindow ==
    [][(/\ last'.op = "run"
        /\ DictHas(agents, last'.args.agent_name)
        /\ last'.args.max_turns >= 0)
       => LET agent == DictGet(agents, last'.args.agent_name)
              stored == conversation_history \o last'.args.messages
              n == Len(stored)
              k == Min(last'.args.max_turns, n)
          IN  /\ Len(last'.calls) = 1
              /\ last'.calls[1].messages
                     = <<[role |-> "system", content |-> agent.instructions]>>
                       \o [i \in 1..k |->
                              [role |-> stored[n - k + i].role,
                               content |-> stored[n - k + i].content]]
              /\ Len(conversation_history') >= n
              /\ SubSeq(conversation_history', 1, n) = stored]_vars

(***************************************************************************)
(* SpecMulti: sequential multi-agent runs over every registry and history. *)
(***************************************************************************)
NextMulti ==
    \/ AddAgent({AgentA, AgentB}, 0)
    \/ AddMessage({UserMessage(clock)}, MaxHistMulti)
    \/ MultiAgentRun(CtxArgs, MaxHistMulti)

SpecMulti == Init /\ [][NextMulti]_vars

(***************************************************************************)
(* C8: with every name of the sequence registered, multi_agent_run invokes *)
(* run once per agent in the given order, whatever the completion calls    *)
(* do, and returns one result per agent in that order; the first agent     *)
(* gets one user message holding the initial text and each later agent one *)
(* user message holding the content of the previous result's message, a    *)
(* degraded result included.                                               *)
(***************************************************************************)
C8_SequentialChain ==
    (/\ last.op = "multi_agent_run"
     /\ \A i \in 1..Len(last.args.agent_sequence) :
            DictHas(agents, last.args.agent_sequence[i]))
    => LET sq == last.args.agent_sequence
           results == last.ret
       IN  /\ last.raised = ""
           /\ Len(results) = Len(sq)
           /\ Len(last.runs) = Len(sq)
           /\ Len(last.calls) = Len(sq)
           /\ \A i \in 1..Len(sq) :
                /\ last.runs[i].agent_name = sq[i]
                /\ results[i].agent.name = sq[i]
                /\ last.calls[i].model = results[i].agent.model
                /\ Len(results[i].messages) = 1
                /\ results[i].messages[1].content
                       = IF last.args.remotes[i].ok
                         THEN last.args.remotes[i].text
                         ELSE "Error: " \o last.args.remotes[i].text
                /\ Len(last.runs[i].messages) = 1
                /\ last.runs[i].messages[1].role = "user"
                /\ last.runs[i].messages[1].content
                       = IF i = 1
                         THEN last.args.initial_message
                         ELSE results[i - 1].messages[1].content

C8_Witness ==
    /\ last.op = "multi_agent_run"
    /\ last.raised = ""
    /\ Len(last.args.agent_sequence) = 2
    /\ ~last.args.remotes[1].ok
    /\ last.args.remotes[2].ok
    /\ Len(last.ret) = 2
    /\ last.runs[2].messages[1].content = "Error: boom"

(***************************************************************************)
(* SpecRegistry: add_agent calls on an initially empty registry, observed  *)
(* with get_agent and list_agents.                                         *)
(***************************************************************************)
AgentA2 == Agent("A", "be A, briefly", None, "gpt-3.5", DefaultTemperature,
                 DefaultMaxTokens)
AgentB2 == Agent("B", "", None, DefaultModel, DefaultTemperature, 50)

NextRegistry ==
    \/ AddAgent({AgentA, AgentA2, AgentB, AgentB2}, MaxAdds)
    \/ GetAgent(Names \cup {"C"})
    \/ ListAgents

SpecRegistry == Init /\ [][NextRegistry]_vars

(***************************************************************************)
(* C4: after any sequence of add_agent calls on an empty registry,         *)
(* list_agents holds each added name exactly once and no other name, and   *)
(* get_agent on an added name returns the definition of the most recent    *)
(* add_agent call for that name.                                           *)
(***************************************************************************)
AddedNames == {add_log[i].name : i \in 1..Len(add_log)}

MostRecentlyAdded(n) ==
    LET calls == {i \in 1..Len(add_log) : add_log[i].name = n}
    IN  add_log[CHOOSE i \in calls : \A j \in calls : j <= i]

C4_RegistryLastWriteWins ==
    LET listed == IF last.op = "list_agents" THEN last.ret
                  ELSE list_agents(Self)
    IN  /\ \A n \in AddedNames :
               Cardinality({i \in 1..Len(listed) : listed[i] = n}) = 1
        /\ \A i \in 1..Len(listed) : listed[i] \in AddedNames
        /\ \A n \in AddedNames :
               get_agent(Self, n) = Some(MostRecentlyAdded(n))
        /\ (last.op = "get_agent" /\ last.args.agent_name \in AddedNames)
               => last.ret = Some(MostRecentlyAdded(last.args.agent_name))

C4_Witness ==
    /\ last.op = "get_agent"
    /\ last.args.agent_name = "A"
    /\ last.ret = Some(AgentA2)
    /\ Len(add_log) = 3
    /\ add_log[1] = AgentA
    /\ add_log[2] = AgentB
    /\ add_log[3] = AgentA2
    /\ list_agents(Self) = <<"A", "B">>

(***************************************************************************)
(* SpecPersist: the save/load cycle.  The state is built with add_agent,   *)
(* add_message, set_context and run, saved and loaded; a new Swarm object  *)
(* may be constructed, the file may be written from outside, and time      *)
(* passes.  last records the environment's steps as well.                  *)
(***************************************************************************)
NoCall(event) ==
    Last(event, <<>>, Outcome("", <<>>, None, <<>>, <<>>), None)

(***************************************************************************)
(* held is a result of run that the caller keeps.  load_state binds        *)
(* self.context_variables to the loaded dict and a new Swarm has a store   *)
(* of its own: a dict that was the store object until then is from then on *)
(* an object of its own, with the pairs it had.                            *)
(***************************************************************************)
Detach(h, store) ==
    IF h = None THEN None
    ELSE Some([h[1] EXCEPT !.context_variables =
                   [is_store |-> FALSE, pairs |-> Pairs(@, store)]])

KeepResult ==
    /\ last.op = "run"
    /\ last.raised = ""
    /\ held' = Some(last.ret)
    /\ last' = NoCall("result kept")
    /\ UNCHANGED <<agents, conversation_history, context_variables, clock,
                   file, add_log>>

SaveState ==
    /\ file' = save_state(Self, clock).file
    /\ last' = Last("save_state", <<>>,
                    Outcome(save_state(Self, clock).raised, Self, None, <<>>,
                            <<>>),
                    None)
    /\ UNCHANGED <<agents, conversation_history, context_variables, clock,
                   add_log, held>>

LoadState(keep_before) ==
    /\ agents' = load_state(Self, file, clock).s.agents
    /\ conversation_history'
           = load_state(Self, file, clock).s.conversation_history
    /\ context_variables' = load_state(Self, file, clock).s.context_variables
    /\ last' = Last("load_state", <<>>, load_state(Self, file, clock),
                    IF keep_before THEN Some(Self) ELSE None)
    /\ held' = IF load_state(Self, file, clock).raised = ""
               THEN Detach(held, context_variables)
               ELSE held
    /\ UNCHANGED <<clock, file, add_log>>

NewSwarm ==
    /\ agents' = <<>>
    /\ conversation_history' = <<>>
    /\ context_variables' = EmptyDict
    /\ last' = NoCall("__init__")
    /\ held' = Detach(held, context_variables)
    /\ UNCHANGED <<clock, file, add_log>>

WriteFile(contents) ==
    \E f \in contents :
        /\ file' = f
        /\ last' = NoCall("file written")
        /\ UNCHANGED <<agents, conversation_history, context_variables,
                       clock, add_log, held>>

Tick ==
    /\ clock < MaxTime
    /\ clock' = clock + 1
    /\ last' = NoCall("time passes")
    /\ UNCHANGED <<agents, conversation_history, context_variables, file,
                   add_log, held>>

AgentF == Agent("F", "use tools", Some(<<<<"function", "lookup">>>>),
                DefaultModel, 2, DefaultMaxTokens)

PersistValues == {<<"list", <<<<"num", 1>>, <<"none">>, <<"str", "v1">>>>>>}

ToolCallMessage(now) ==
    Message("assistant", "", Some("A"),
            Some([name |-> <<"str", "lookup">>]), Some(5), now)

MinimalDoc ==
    [agents |->
         <<[key |-> "B",
            value |-> [name |-> <<"string", "B">>,
                       instructions |-> <<"string", "be B">>]]>>,
     conversation_history |->
         <<[role |-> <<"string", "user">>, content |-> <<"string", "yo">>]>>,
     context_variables |-> <<"object", [k \in {"j"} |-> <<"number", 1>>]>>]

Extra == "version" :> <<"number", 2>>

ExtraTopLevelDoc == MinimalDoc @@ Extra
ExtraAgentFieldDoc == [MinimalDoc EXCEPT !.agents[1].value = @ @@ Extra]
ExtraMessageFieldDoc ==
    [MinimalDoc EXCEPT !.conversation_history[1] = @ @@ Extra]

ExternalFiles ==
    {<<"json", ExtraTopLevelDoc>>, <<"json", ExtraAgentFieldDoc>>,
     <<"json", ExtraMessageFieldDoc>>}

NextPersist ==
    \/ AddAgent({AgentA, AgentF}, 0)
    \/ SetContext(PersistValues)
    \/ AddMessage({ToolCallMessage(clock)}, MaxHistPersist)
    \/ Run({"A"}, {<<UserMessage(clock)>>}, {None}, {DefaultMaxTurns},
           MaxHistPersist)
    \/ SaveState
    \/ LoadState(FALSE)
    \/ NewSwarm
    \/ Tick

SpecPersist == Init /\ [][NextPersist]_vars

(***************************************************************************)
(* SpecLoad: load_state on a Swarm that holds state already, from files    *)
(* written by save_state or from outside.  last.before is the object's     *)
(* state when load_state was called.                                       *)
(***************************************************************************)
NextLoad ==
    \/ AddAgent({AgentA, AgentB}, 0)
    \/ SetContext(Values)
    \/ AddMessage({UserMessage(clock)}, MaxHistPersist)
    \/ SaveState
    \/ WriteFile(ExternalFiles)
    \/ LoadState(TRUE)

SpecLoad == Init /\ [][NextLoad]_vars

(***************************************************************************)
(* C5: from every state built with add_agent, add_message, set_context and *)
(* run in which no agent holds callables, save_state followed by           *)
(* load_state into a new Swarm, at any later time, gives the same agents   *)
(* with the same name, instructions, model, temperature and max_tokens,    *)
(* the same messages in the same order with the same role, content, name,  *)
(* function_call and timestamp, and the same context key/value pairs.      *)
(***************************************************************************)
NoCallables(s) ==
    \A i \in 1..Len(s.agents) : s.agents[i].value.functions = <<>>

SameAgentFields(a, b) ==
    /\ a.name = b.name
    /\ a.instructions = b.instructions
    /\ a.model = b.model
    /\ a.temperature = b.temperature
    /\ a.max_tokens = b.max_tokens

SameMessageFields(a, b) ==
    /\ a.role = b.role
    /\ a.content = b.content
    /\ a.name = b.name
    /\ a.function_call = b.function_call
    /\ a.timestamp = b.timestamp

RoundTrip(s, loaded) ==
    /\ {s.agents[i].key : i \in 1..Len(s.agents)}
           = {loaded.agents[i].key : i \in 1..Len(loaded.agents)}
    /\ \A i \in 1..Len(s.agents) :
           /\ DictHas(loaded.agents, s.agents[i].key)
           /\ SameAgentFields(s.agents[i].value,
                              DictGet(loaded.agents, s.agents[i].key))
    /\ Len(loaded.conversation_history) = Len(s.conversation_history)
    /\ \A i \in 1..Len(s.conversation_history) :
           SameMessageFields(s.conversation_history[i],
                             loaded.conversation_history[i])
    /\ DOMAIN loaded.context_variables = DOMAIN s.context_variables
    /\ \A k \in DOMAIN s.context_variables :
           loaded.context_variables[k] = s.context_variables[k]

C6_CallablesDropped ==
    (last.op = "save_state" /\ ~NoCallables(Self)) =>
        /\ last.raised = ""
        /\ file # None
        /\ file[1] = "json"
        /\ LET out == load_state(Swarm(<<>>, <<>>, EmptyDict), file, clock)
           IN  /\ out.raised = ""
               /\ \A i \in 1..Len(agents) :
                      /\ DictHas(out.s.agents, agents[i].key)
                      /\ DictGet(out.s.agents, agents[i].key).functions = <<>>
                      /\ SameAgentFields(agents[i].value,
                                         DictGet(out.s.agents, agents[i].key))

(***************************************************************************)
(* C9: a successful load_state replaces the state in memory: afterwards    *)
(* the registry, the history and the context variables hold what the       *)
(* document holds and nothing else, whatever was in memory before.         *)
(***************************************************************************)
C9_LoadReplaces ==
    (last.op = "load_state" /\ last.raised = "") =>
        /\ file # None
        /\ file[1] = "json"
        /\ LET doc == file[2]
           IN  /\ DictKeys(agents) = DictKeys(doc.agents)
               /\ \A i \in 1..Len(agents) :
                      /\ agents[i].value.name = doc.agents[i].value.name[2]
                      /\ agents[i].value.instructions
                             = doc.agents[i].value.instructions[2]
               /\ Len(conversation_history) = Len(doc.conversation_history)
               /\ \A i \in 1..Len(conversation_history) :
                      /\ conversation_history[i].role
                             = doc.conversation_history[i].role[2]
                      /\ conversation_history[i].content
                             = doc.conversation_history[i].content[2]
               /\ DOMAIN context_variables = DOMAIN doc.context_variables[2]
               /\ \A k \in DOMAIN context_variables :
                      json_encode(context_variables[k])
                          = doc.context_variables[2][k]

C9_Witness ==
    /\ last.op = "load_state"
    /\ last.raised = ""
    /\ last.before # None
    /\ DictHas(last.before[1].agents, "A")
    /\ ~DictHas(agents, "A")
    /\ Len(last.before[1].conversation_history) = 2
    /\ Len(conversation_history) = 1
    /\ "k" \in DOMAIN last.before[1].context_variables
    /\ "k" \notin DOMAIN context_variables

(***************************************************************************)
(* C10: load_state reads a document whose top level, agent entries or      *)
(* message entries carry unknown extra fields, ignoring them, and a        *)
(* document whose entries omit optional fields, which then take their      *)
(* defaults.                                                               *)
(***************************************************************************)
ForwardReadable(doc) ==
    /\ {"agents", "conversation_history", "context_variables"}
           \subseteq DOMAIN doc
    /\ \A i \in 1..Len(doc.agents) :
           {"name", "instructions"} \subseteq DOMAIN doc.agents[i].value
    /\ \A i \in 1..Len(doc.conversation_history) :
           {"role", "content"} \subseteq DOMAIN doc.conversation_history[i]

C10_ForwardReadable ==
    (/\ last.op = "load_state"
     /\ file # None
     /\ file[1] = "json"
     /\ ForwardReadable(file[2]))
    => /\ last.raised = ""
       /\ DictKeys(agents) = DictKeys(file[2].agents)
       /\ Len(conversation_history) = Len(file[2].conversation_history)
       /\ \A i \in 1..Len(agents) :
              LET data == file[2].agents[i].value
              IN  /\ "functions" \notin DOMAIN data
                         => agents[i].value.functions = <<>>
                  /\ "model" \notin DOMAIN data
                         => agents[i].value.model = DefaultModel
                  /\ "temperature" \notin DOMAIN data
                         => agents[i].value.temperature = DefaultTemperature
                  /\ "max_tokens" \notin DOMAIN data
                         => agents[i].value.max_tokens = DefaultMaxTokens
       /\ \A i \in 1..Len(conversation_history) :
              LET data == file[2].conversation_history[i]
              IN  /\ "name" \notin DOMAIN data
                         => conversation_history[i].name = None
                  /\ "function_call" \notin DOMAIN data
                         => conversation_history[i].function_call = None
                  /\ "timestamp" \notin DOMAIN data
                         => conversation_history[i].timestamp = clock

(***************************************************************************)
(* SpecSnapshot: the caller keeps a result of run and goes on calling      *)
(* set_context, run, multi_agent_run and load_state on the same Swarm; the *)
(* file that load_state reads is written from outside.                     *)
(***************************************************************************)
NextSnapshot ==
    \/ AddAgent({AgentA}, 0)
    \/ SetContext(Values)
    \/ Run({"A"}, {<<>>}, CtxArgs, {DefaultMaxTurns}, MaxHistSnapshot)
    \/ KeepResult
    \/ MultiAgentRun(CtxArgs, MaxHistSnapshot)
    \/ WriteFile({<<"json", MinimalDoc>>})
    \/ LoadState(FALSE)

SpecSnapshot == Init /\ [][NextSnapshot]_vars

(***************************************************************************)
(* C11: the context_variables of a result returned by run hold the pairs   *)
(* of the context store when run returned, and every later step on the     *)
(* same Swarm (set_context, run with context overrides, multi_agent_run,   *)
(* load_state) leaves the pairs of a result the caller already holds as    *)
(* they were.                                                              *)
(***************************************************************************)
HeldPairs == Pairs(held[1].context_variables, context_variables)

C11_ResultSnapshot ==
    [][/\ (last'.op = "run" /\ last'.raised = "")
           => Pairs(last'.ret.context_variables, context_variables')
                  = context_variables'
       /\ (held # None /\ last'.op # "result kept")
           => /\ held' # None
              /\ HeldPairs' = HeldPairs]_vars

C11_Witness ==
    /\ held # None
    /\ last.op = "load_state"
    /\ last.raised = ""
    /\ held[1].context_variables.pairs = [k \in {"k"} |-> <<"str", "v1">>]
    /\ HeldPairs = held[1].context_variables.pairs
    /\ context_variables = [k \in {"j"} |-> <<"num", 1>>]

(***************************************************************************)
(* C12: handoff with both names registered is one run on the target agent: *)
(* it appends one user message whose content holds the source agent's name *)
(* and the given text, invokes run once, on the target and with that       *)
(* message, sends one request, built from the target's definition, returns *)
(* one result attributed to the target, and leaves the history and the     *)
(* context variables as run(to_agent, [that message], context) leaves them *)
(* from the same state.                                                    *)
(***************************************************************************)
C12_HandoffIsRun ==
    [][(/\ last'.op = "handoff"
        /\ DictHas(agents, last'.args.from_agent)
        /\ DictHas(agents, last'.args.to_agent))
       => LET a == last'.args
              target == DictGet(agents, a.to_agent)
              n == Len(conversation_history)
              synthetic ==
                  [role |-> "user",
                   content |-> "[Handoff from " \o a.from_agent \o "]: "
                               \o a.message,
                   name |-> None, function_call |-> None, timestamp |-> clock]
              as_run == run(Self, a.to_agent, <<synthetic>>, a.context,
                            DefaultMaxTurns, a.remote, clock)
          IN  /\ last'.raised = ""
              /\ last'.runs = <<RunArgs(a.to_agent, <<synthetic>>)>>
              /\ Len(last'.calls) = 1
              /\ last'.calls[1].model = target.model
              /\ last'.calls[1].messages[1].content = target.instructions
              /\ last'.ret.agent = target
              /\ Len(last'.ret.messages) = 1
              /\ last'.ret.messages[1].name = Some(a.to_agent)
              /\ Len(conversation_history') > n
              /\ SubSeq(conversation_history', 1, n + 1)
                     = Append(conversation_history, synthetic)
              /\ Cardinality({i \in (n + 1)..Len(conversation_history') :
                                  conversation_history'[i].role = "user"}) = 1
              /\ last'.ret = as_run.ret
              /\ conversation_history' = as_run.s.conversation_history
              /\ context_variables' = as_run.s.context_variables]_vars

C12_Witness ==
    /\ last.op = "handoff"
    /\ last.raised = ""
    /\ last.args.from_agent = "A"
    /\ last.args.to_agent = "B"
    /\ last.args.remote.ok
    /\ last.args.context # None
    /\ Len(conversation_history) = 3
    /\ conversation_history[1].content = "hi"
    /\ conversation_history[2].content = "[Handoff from A]: hi"
    /\ conversation_history[3] = last.ret.messages[1]
    /\ last.ret.agent = AgentB
    /\ context_variables["k"] = <<"str", "v2">>

(***************************************************************************)
(* C13: when run on a registered agent gets a remote success, the history  *)
(* afterwards is the prior history, then the supplied messages in the      *)
(* order given, then one assistant message whose name is the agent's name  *)
(* and whose content is the generated text; the result's single message is *)
(* that appended message and the result's agent is the registered agent.   *)
(***************************************************************************)
C13_SuccessAppended ==
    [][(/\ last'.op = "run"
        /\ DictHas(agents, last'.args.agent_name)
        /\ last'.args.remote.ok)
       => /\ last'.raised = ""
          /\ Len(last'.ret.messages) = 1
          /\ last'.ret.messages[1].role = "assistant"
          /\ last'.ret.messages[1].name = Some(last'.args.agent_name)
          /\ last'.ret.messages[1].content = last'.args.remote.text
          /\ last'.ret.agent = DictGet(agents, last'.args.agent_name)
          /\ conversation_history'
                 = conversation_history \o last'.args.messages
                   \o last'.ret.messages]_vars

C13_Witness ==
    /\ last.op = "run"
    /\ last.raised = ""
    /\ last.args.remote.ok
    /\ last.args.agent_name = "B"
    /\ Len(last.args.messages) = 2
    /\ Len(conversation_history) = 3
    /\ conversation_history[1].role = "function"
    /\ conversation_history[2].role = "user"
    /\ conversation_history[3] = last.ret.messages[1]
    /\ conversation_history[3].name = Some("B")
    /\ conversation_history[3].content = "ok"

(***************************************************************************)
(* SpecHistory: add_agent, remove_agent, set_context, add_message, run,    *)
(* handoff, multi_agent_run and save_state calls in any order; neither     *)
(* clear_history nor load_state is called.                                 *)
(***************************************************************************)
NextHistory ==
    \/ AddAgent({AgentA}, 0)
    \/ RemoveAgent
    \/ SetContext({<<"str", "v2">>})
    \/ AddMessage({UserMessage(clock)}, MaxHistPersist)
    \/ Run({"A"}, {<<UserMessage(clock)>>}, {None}, {DefaultMaxTurns},
           MaxHistPersist)
    \/ Handoff(MaxHistPersist)
    \/ MultiAgentRun({None}, MaxHistPersist)
    \/ SaveState

SpecHistory == Init /\ [][NextHistory]_vars

(***************************************************************************)
(* C14: over add_agent, remove_agent, set_context, add_message, run,       *)
(* handoff, multi_agent_run and save_state calls, the history before each  *)
(* step is a prefix of the history after it: stored messages are never     *)
(* reordered, dropped, deduplicated or truncated.                          *)
(***************************************************************************)
IsPrefix(p, q) == Len(p) <= Len(q) /\ SubSeq(q, 1, Len(p)) = p

C14_HistoryAppendOnly ==
    [][IsPrefix(conversation_history, conversation_history')]_vars

C14_Witness ==
    /\ last.op = "handoff"
    /\ last.raised = ""
    /\ file # None
    /\ file[1] = "json"
    /\ Len(file[2].conversation_history) = 1
    /\ file[2].conversation_history[1].content = <<"string", "hi">>
    /\ Len(conversation_history) = 2
    /\ conversation_history[1].content = "hi"
    /\ conversation_history[2].content = "[Handoff from A]: hi"

(***************************************************************************)
(* C15: multi_agent_run with an unregistered name in its agent sequence,   *)
(* at any position and with or without context overrides, raises the       *)
(* not-found error and leaves the history and the context variables as     *)
(* they were before the call.                                              *)
(***************************************************************************)
C15_MultiNotFoundNoEffect ==
    [][(/\ last'.op = "multi_agent_run"
        /\ \E i \in 1..Len(last'.args.agent_sequence) :
               ~DictHas(agents, last'.args.agent_sequence[i]))
       => /\ last'.raised = "ValueError"
          /\ UNCHANGED <<conversation_history, context_variables>>]_vars

(***************************************************************************)
(* SpecLoadFail: load_state on a Swarm that holds state, from a file that  *)
(* is missing, is not JSON, lacks one of the three sections or holds an    *)
(* agent or message entry without a required field.                        *)
(***************************************************************************)
Without(doc, field) == [f \in DOMAIN doc \ {field} |-> doc[f]]

MissingAgentsDoc == Without(MinimalDoc, "agents")
MissingHistoryDoc == Without(MinimalDoc, "conversation_history")
MissingContextDoc == Without(MinimalDoc, "context_variables")
MalformedAgentDoc ==
    [MinimalDoc EXCEPT !.agents[1].value = Without(@, "instructions")]
MalformedMessageDoc ==
    [MinimalDoc EXCEPT !.conversation_history[1] = Without(@, "content")]

FailingFiles ==
    {<<"invalid">>, <<"json", MissingAgentsDoc>>,
     <<"json", MissingHistoryDoc>>, <<"json", MissingContextDoc>>,
     <<"json", MalformedAgentDoc>>, <<"json", MalformedMessageDoc>>}

NextLoadFail ==
    \/ AddAgent({AgentA, AgentB}, 0)
    \/ SetContext(Values)
    \/ AddMessage({UserMessage(clock)}, MaxHistPersist)
    \/ WriteFile(FailingFiles)
    \/ LoadState(TRUE)

SpecLoadFail == Init /\ [][NextLoadFail]_vars

(***************************************************************************)
(* C16: when load_state fails, for a missing source, an unparseable one, a *)
(* document with a missing section or a malformed agent or message entry,  *)
(* the error reaches the caller and the registry, the history and the      *)
(* context variables are as they were before the call.                     *)
(***************************************************************************)
C16_FailedLoadNoEffect ==
    (last.op = "load_state" /\ last.raised # "")
    => /\ last.raised \in {"FileNotFoundError", "JSONDecodeError", "KeyError",
                           "TypeError"}
       /\ last.before # None
       /\ Self = last.before[1]

====
